---- MODULE Spec2Model ----
(***************************************************************************)
(* State-machine model of examples/babylon-langgraph-agent/agent_http.py:  *)
(* the bounded action log (add_to_memory), the JSON-RPC client             *)
(* (BabylonA2AClient.call / close), the five tool adapters and the         *)
(* start-up phases and tick loop of main().                                *)
(*                                                                         *)
(* The LLM/LangGraph oracle behind BabylonAgent.decide is an external      *)
(* collaborator: it is modelled as an environment that, while a decide     *)
(* call is in progress, invokes any adapter with any argument, one at a    *)
(* time, and finally returns or raises.  The remote server is an           *)
(* environment that answers each POST with any response of Responses.      *)
(***************************************************************************)
EXTENDS Integers, Sequences, FiniteSets, TLC

VARIABLES
    pc,             \* position of main(): phase1, phase2, phase3, loop, decide, sleep, shutdown, stopped
    exit,           \* how asyncio.run(main()) ended: none, return, KeyboardInterrupt
    tick_count,     \* main's local tick_count
    client_state,   \* a2a_client: None (not constructed), open, closed (aclose() done)
    message_id,     \* a2a_client.message_id (0 while a2a_client is None)
    action_memory,  \* the module-level list action_memory
    now,            \* number of datetime.now() readings so far (the clock)
    tool,           \* the adapter the oracle is running, or "none"
    tool_arg,       \* the argument of the running adapter (outcome of buy_shares)
    tool_base,      \* Len(sent) when the running / last adapter invocation began
    inflight,       \* the request whose response call() is awaiting (id 0: none)
    balance,        \* get_portfolio's local `balance` between its two calls
    sent,           \* every POST performed so far, in order: [id, method]
    ret,            \* what the running / last adapter invocation returned to the oracle
    last_call,      \* the response call() last got in that invocation, and what it did
    started,        \* decide calls started
    finished,       \* decide calls that returned or raised
    slept,          \* interval sleeps that ran to completion
    tick_log,       \* per tick, what main() printed for it: running, ok, error
    signal,         \* a SIGINT has been delivered to the process
    startup,        \* the start-up phases: running, ok, failed (a phase's handler
                    \* returned), crashed (an exception left main() before the loop)
    prompt_memory   \* get_memory_summary() as put into the prompt of the running /
                    \* last decide call

vars == <<pc, exit, tick_count, client_state, message_id, action_memory, now,
          tool, tool_arg, tool_base, inflight, balance, sent, ret, last_call,
          started, finished, slept, tick_log, signal, startup, prompt_memory>>

\* ---------------------------------------------------------------- bounds

\* Ticks the model lets the loop start.
MaxTicks == 2
\* Highest request id the oracle may start an adapter at, in a run from start-up.
MaxCalls == 2
\* Highest request id the oracle may start an adapter at, in the runs checked
\* for progress.
MaxLiveCalls == 1
\* Longest log the summary runs start from.
MaxSumLog == 6
\* Adapter invocations the memory runs add to a nearly full log.
MaxMemCalls == 2

\* ------------------------------------------------------------- constants

\* add_to_memory: `if len(action_memory) > 20`
MemoryCap == 20
\* get_memory_summary: `action_memory[-5:]`
SummarySize == 5

ToolNames == {"get_markets", "get_portfolio", "buy_shares", "create_post", "get_feed"}

\* Values the oracle passes as buy_shares' outcome.
Outcomes == {"yes", "No"}

\* str.upper() on the outcomes above.
upper(s) ==
    CASE s = "yes" -> "YES"
      [] s = "No"  -> "NO"
      [] OTHER     -> s

\* ---------------------------------------------------------- action memory

\* Mutant of add_to_memory: pop() in place of pop(0) drops the newest entry.
add_to_memory_pops_newest(mem, action, result, ts) ==
    LET appended == Append(mem, [action |-> action, result |-> result, timestamp |-> ts])
    IN  IF Len(appended) > MemoryCap THEN SubSeq(appended, 1, Len(appended) - 1)
                                     ELSE appended

\* add_to_memory(action, result): append, then drop the head when over capacity.
add_to_memory(mem, action, result, ts) ==
    LET appended == Append(mem, [action |-> action, result |-> result, timestamp |-> ts])
    IN  IF Len(appended) > MemoryCap THEN Tail(appended) ELSE appended

\* get_memory_summary: `str(a['result'])[:80]`
ResultChars == 80

\* str(result) of the result mappings below, as its characters.
str_of(result) ==
    IF result = [balance |-> 100]
      THEN <<"{", "'", "b", "a", "l", "a", "n", "c", "e", "'", ":", " ",
             "1", "0", "0", "}">>
    ELSE IF result = [posts |-> <<"p1">>]
      THEN <<"{", "'", "p", "o", "s", "t", "s", "'", ":", " ",
             "[", "'", "p", "1", "'", "]", "}">>
    ELSE <<"{", "}">>

\* s[:n]
Prefix(s, n) == SubSeq(s, 1, IF Len(s) < n THEN Len(s) ELSE n)

\* s[-n:]
Suffix(s, n) == SubSeq(s, IF Len(s) < n THEN 1 ELSE Len(s) - n + 1, Len(s))

\* One line of the summary: f"[{timestamp}] {action}: {str(result)[:80]}".
summary_line(a) ==
    [timestamp |-> a.timestamp, action |-> a.action,
     result |-> Prefix(str_of(a.result), ResultChars)]

\* The summary before any decide call has asked for it.
NoSummary == [text |-> "", lines |-> <<>>]

\* Mutant of get_memory_summary: the slice is action_memory[:5], the oldest five.
get_memory_summary_oldest(mem) ==
    IF mem = <<>>
      THEN [text |-> "No recent actions.", lines |-> <<>>]
      ELSE LET recent == Prefix(mem, SummarySize)
           IN  [text |-> "",
                lines |-> [k \in 1..Len(recent) |-> summary_line(recent[k])]]

\* get_memory_summary(): the sentinel for an empty log, else the lines of the
\* last five entries ("\n".join is kept as the sequence of the lines).
get_memory_summary(mem) ==
    IF mem = <<>>
      THEN [text |-> "No recent actions.", lines |-> <<>>]
      ELSE LET recent == Suffix(mem, SummarySize)
           IN  [text |-> "",
                lines |-> [k \in 1..Len(recent) |-> summary_line(recent[k])]]

\* ------------------------------------------------------------- the client

\* Remote methods (spec section 6); each adapter's first call.
first_method(name) ==
    CASE name = "get_markets"   -> "a2a.getMarketData"
      [] name = "get_portfolio" -> "a2a.getBalance"
      [] name = "buy_shares"    -> "a2a.buyShares"
      [] name = "create_post"   -> "a2a.createPost"
      [] name = "get_feed"      -> "a2a.getFeed"

\* `status` of a POST that raised instead of answering (connection error, timeout).
NoResponse == 0
\* HTTP statuses the server answers with.
Statuses == {200, 404}
\* `result` mappings the server returns.
Results == {[balance |-> 100], [posts |-> <<"p1">>]}
\* `message` texts of the server's error objects.
Messages == {"insufficient balance", "market closed"}

NoResult == [absent |-> TRUE]
NoMessage == ""
NotJson == [kind |-> "text", has_result |-> FALSE, has_error |-> FALSE,
            result |-> NoResult, message |-> NoMessage]
JsonArray == [kind |-> "array", has_result |-> FALSE, has_error |-> FALSE,
              result |-> NoResult, message |-> NoMessage]

\* Response bodies: not JSON; JSON but no object (an empty array); or a JSON
\* object with or without `result` and with or without an `error` object
\* {code, message}.
Bodies ==
    {NotJson, JsonArray} \cup
    { [kind |-> "object", has_result |-> hr, has_error |-> he,
       result |-> IF hr THEN r ELSE NoResult,
       message |-> IF he THEN m ELSE NoMessage] :
         hr \in BOOLEAN, he \in BOOLEAN, r \in Results, m \in Messages }

Responses ==
    {[status |-> NoResponse, body |-> NotJson]} \cup
    {[status |-> s, body |-> b] : s \in Statuses, b \in Bodies}

\* httpx Response.is_success, which raise_for_status() tests.
is_success(status) == status \in 200..299

Raise(type, text) == [raised |-> TRUE, type |-> type, text |-> text, value |-> NoResult]
Return(value) == [raised |-> FALSE, type |-> "", text |-> <<>>, value |-> value]

\* Mutant of decode: `result` is looked for first, so a body with both `result`
\* and `error` is returned as a success.
decode_result_first(resp) ==
    IF resp.status = NoResponse
      THEN Raise("ConnectError", <<"connection failed">>)
    ELSE IF ~is_success(resp.status)
      THEN Raise("HTTPStatusError", <<"HTTP status error">>)
    ELSE IF resp.body.kind = "text"
      THEN Raise("JSONDecodeError", <<"Expecting value">>)
    ELSE IF resp.body.kind = "array"
      THEN Raise("TypeError", <<"list indices must be integers or slices, not str">>)
    ELSE IF resp.body.has_result
      THEN Return(resp.body.result)
    ELSE IF resp.body.has_error
      THEN Raise("Exception", <<"A2A Error: ", resp.body.message>>)
    ELSE Raise("KeyError", <<"'result'">>)

\* Mutant of decode: `result.get('result', {})` in place of `result['result']`
\* returns an empty mapping for a body without `result`.
decode_defaults_result(resp) ==
    IF resp.status = NoResponse
      THEN Raise("ConnectError", <<"connection failed">>)
    ELSE IF ~is_success(resp.status)
      THEN Raise("HTTPStatusError", <<"HTTP status error">>)
    ELSE IF resp.body.kind = "text"
      THEN Raise("JSONDecodeError", <<"Expecting value">>)
    ELSE IF resp.body.kind = "array"
      THEN Raise("TypeError", <<"list indices must be integers or slices, not str">>)
    ELSE IF resp.body.has_error
      THEN Raise("Exception", <<"A2A Error: ", resp.body.message>>)
    ELSE Return(resp.body.result)

\* The part of call() after the POST: what it raises or returns for a response.
\* str(e) of the raised exception is kept as the sequence of its parts.
decode(resp) ==
    IF resp.status = NoResponse
      THEN Raise("ConnectError", <<"connection failed">>)
    ELSE IF ~is_success(resp.status)
      THEN Raise("HTTPStatusError", <<"HTTP status error">>)
    ELSE IF resp.body.kind = "text"
      THEN Raise("JSONDecodeError", <<"Expecting value">>)
    ELSE IF resp.body.kind = "array"
      THEN Raise("TypeError", <<"list indices must be integers or slices, not str">>)
    ELSE IF resp.body.has_error
      THEN Raise("Exception", <<"A2A Error: ", resp.body.message>>)
    ELSE IF ~resp.body.has_result
      THEN Raise("KeyError", <<"'result'">>)
    ELSE Return(resp.body.result)

NoRequest == [id |-> 0, method |-> ""]

\* Mutant of call: the counter is not bumped, so the next call takes the same id.
call_reuses_id(method) ==
    /\ message_id' = message_id
    /\ sent' = Append(sent, [id |-> message_id, method |-> method])
    /\ inflight' = [id |-> message_id, method |-> method]

\* The part of call() up to the POST: take the id, bump the counter, send.
call(method) ==
    /\ message_id' = message_id + 1
    /\ sent' = Append(sent, [id |-> message_id, method |-> method])
    /\ inflight' = [id |-> message_id, method |-> method]

\* dict.get(key, default)
Get(m, key, default) == IF key \in DOMAIN m THEN m[key] ELSE default

\* What an adapter hands back: json.dumps(value) or json.dumps({'error': str(e)}).
Payload(name, value) == [tool |-> name, error |-> FALSE, text |-> <<>>, value |-> value]
ErrorPayload(name, text) == [tool |-> name, error |-> TRUE, text |-> text, value |-> NoResult]
NoPayload == [tool |-> "none", error |-> FALSE, text |-> <<>>, value |-> NoResult]

\* A finished call(): the response it got and what decode made of it.
Called(resp) == [done |-> TRUE, response |-> resp, outcome |-> decode(resp)]
NoCall == [done |-> FALSE, response |-> [status |-> NoResponse, body |-> NotJson],
           outcome |-> Return(NoResult)]

\* Mutant of is_Exception: CancelledError derives from Exception, as it did
\* before Python 3.8, so `except Exception` catches it.
is_Exception_old_asyncio(e) == e # "KeyboardInterrupt"

\* `except Exception` (adapters, the tick): BaseException-only classes pass through.
is_Exception(e) == e \notin {"CancelledError", "KeyboardInterrupt"}

\* ------------------------------------------------------------ the adapters

main_vars == <<pc, exit, tick_count, client_state, started, finished, slept,
               tick_log, signal, startup, prompt_memory>>

\* The oracle, inside a decide call, invokes one adapter; the adapter runs up to
\* the await of its first call().
InvokeTool(limit) ==
    /\ pc = "decide"
    /\ tool = "none"
    /\ message_id <= limit
    /\ \E name \in ToolNames, arg \in Outcomes :
         /\ tool' = name
         /\ tool_arg' = IF name = "buy_shares" THEN arg ELSE ""
         /\ call(first_method(name))
    /\ tool_base' = Len(sent)
    /\ ret' = NoPayload
    /\ last_call' = NoCall
    /\ UNCHANGED <<main_vars, action_memory, now, balance>>

\* Mutant of get_markets: no try/except, so a failure of call() leaves the
\* adapter and the decide call as an exception, which the tick's handler catches.
get_markets_unguarded ==
    /\ pc = "decide"
    /\ tool = "get_markets"
    /\ \E resp \in Responses :
         LET r == decode(resp)
         IN  /\ last_call' = Called(resp)
             /\ IF r.raised
                  THEN /\ finished' = finished + 1
                       /\ tick_log' = [tick_log EXCEPT ![Len(tick_log)] = "error"]
                       /\ pc' = "sleep"
                       /\ ret' = ret
                  ELSE /\ ret' = Payload(tool, r.value)
                       /\ UNCHANGED <<finished, tick_log, pc>>
    /\ tool' = "none"
    /\ inflight' = NoRequest
    /\ UNCHANGED <<exit, tick_count, client_state, started, slept, signal,
                   startup, prompt_memory,
                   message_id, action_memory, now, tool_arg, tool_base, balance, sent>>

get_markets ==
    /\ pc = "decide"
    /\ tool = "get_markets"
    /\ \E resp \in Responses :
         LET r == decode(resp)
         IN  /\ last_call' = Called(resp)
             /\ ret' = IF r.raised THEN ErrorPayload(tool, r.text)
                                    ELSE Payload(tool, r.value)
    /\ tool' = "none"
    /\ inflight' = NoRequest
    /\ UNCHANGED <<main_vars, message_id, action_memory, now, tool_arg, tool_base,
                   balance, sent>>

\* Mutant of get_portfolio_balance: a failure of a2a.getBalance is swallowed and
\* a2a.getPositions is requested all the same.
get_portfolio_balance_goes_on ==
    /\ pc = "decide"
    /\ tool = "get_portfolio"
    /\ inflight.method = "a2a.getBalance"
    /\ \E resp \in Responses :
         LET r == decode(resp)
         IN  /\ last_call' = Called(resp)
             /\ balance' = r.value
             /\ call("a2a.getPositions")
             /\ UNCHANGED <<ret, tool>>
    /\ UNCHANGED <<main_vars, action_memory, now, tool_arg, tool_base>>

\* get_portfolio, resumed with the response to a2a.getBalance.
get_portfolio_balance ==
    /\ pc = "decide"
    /\ tool = "get_portfolio"
    /\ inflight.method = "a2a.getBalance"
    /\ \E resp \in Responses :
         LET r == decode(resp)
         IN  /\ last_call' = Called(resp)
             /\ IF r.raised
                  THEN /\ ret' = ErrorPayload(tool, r.text)
                       /\ tool' = "none"
                       /\ inflight' = NoRequest
                       /\ UNCHANGED <<message_id, sent, balance>>
                  ELSE /\ balance' = r.value
                       /\ call("a2a.getPositions")
                       /\ UNCHANGED <<ret, tool>>
    /\ UNCHANGED <<main_vars, action_memory, now, tool_arg, tool_base>>

\* get_portfolio, resumed with the response to a2a.getPositions.
get_portfolio_positions ==
    /\ pc = "decide"
    /\ tool = "get_portfolio"
    /\ inflight.method = "a2a.getPositions"
    /\ \E resp \in Responses :
         LET r == decode(resp)
         IN  /\ last_call' = Called(resp)
             /\ ret' = IF r.raised
                         THEN ErrorPayload(tool, r.text)
                         ELSE Payload(tool, [balance |-> Get(balance, "balance", 0),
                                             positions |-> r.value])
    /\ tool' = "none"
    /\ inflight' = NoRequest
    /\ balance' = NoResult
    /\ UNCHANGED <<main_vars, message_id, action_memory, now, tool_arg, tool_base, sent>>

\* Mutant of record_and_return: the result is returned without being recorded.
record_and_return_forgets(action) ==
    \E resp \in Responses :
       LET r == decode(resp)
       IN  /\ last_call' = Called(resp)
           /\ ret' = IF r.raised THEN ErrorPayload(tool, r.text)
                                  ELSE Payload(tool, r.value)
           /\ UNCHANGED <<action_memory, now>>

\* buy_shares / create_post after the await: on a result, record it and return it.
record_and_return(action) ==
    \E resp \in Responses :
       LET r == decode(resp)
       IN  /\ last_call' = Called(resp)
           /\ IF r.raised
                THEN /\ ret' = ErrorPayload(tool, r.text)
                     /\ UNCHANGED <<action_memory, now>>
                ELSE /\ now' = now + 1
                     /\ action_memory' = add_to_memory(action_memory, action, r.value, now')
                     /\ ret' = Payload(tool, r.value)

\* Mutant of buy_shares: the label is f"BUY_{outcome}", without .upper().
buy_shares_raw_label ==
    /\ pc = "decide"
    /\ tool = "buy_shares"
    /\ record_and_return("BUY_" \o tool_arg)
    /\ tool' = "none"
    /\ inflight' = NoRequest
    /\ UNCHANGED <<main_vars, message_id, tool_arg, tool_base, balance, sent>>

buy_shares ==
    /\ pc = "decide"
    /\ tool = "buy_shares"
    /\ record_and_return("BUY_" \o upper(tool_arg))
    /\ tool' = "none"
    /\ inflight' = NoRequest
    /\ UNCHANGED <<main_vars, message_id, tool_arg, tool_base, balance, sent>>

\* Mutant of create_post: a failed attempt is POSTed once more before the
\* adapter gives up.
create_post_retries ==
    /\ pc = "decide"
    /\ tool = "create_post"
    /\ \/ /\ Len(sent) - tool_base < 2
          /\ \E resp \in Responses : decode(resp).raised
          /\ sent' = Append(sent, inflight)
          /\ UNCHANGED <<tool, inflight, action_memory, now, ret, last_call>>
       \/ /\ record_and_return("CREATE_POST")
          /\ tool' = "none"
          /\ inflight' = NoRequest
          /\ sent' = sent
    /\ UNCHANGED <<main_vars, message_id, tool_arg, tool_base, balance>>

create_post ==
    /\ pc = "decide"
    /\ tool = "create_post"
    /\ record_and_return("CREATE_POST")
    /\ tool' = "none"
    /\ inflight' = NoRequest
    /\ UNCHANGED <<main_vars, message_id, tool_arg, tool_base, balance, sent>>

get_feed ==
    /\ pc = "decide"
    /\ tool = "get_feed"
    /\ \E resp \in Responses :
         LET r == decode(resp)
         IN  /\ last_call' = Called(resp)
             /\ ret' = IF r.raised THEN ErrorPayload(tool, r.text)
                                    ELSE Payload(tool, Get(r.value, "posts", <<>>))
    /\ tool' = "none"
    /\ inflight' = NoRequest
    /\ UNCHANGED <<main_vars, message_id, action_memory, now, tool_arg, tool_base,
                   balance, sent>>

Adapters ==
    \/ get_markets
    \/ get_portfolio_balance
    \/ get_portfolio_positions
    \/ buy_shares
    \/ create_post
    \/ get_feed

\* ------------------------------------------------------------------- main

tool_vars == <<message_id, action_memory, now, tool, tool_arg, tool_base,
               inflight, balance, sent, ret, last_call>>

\* Phase 1: identity set up.
Phase1Ok ==
    /\ pc = "phase1"
    /\ pc' = "phase2"
    /\ UNCHANGED <<exit, tick_count, client_state, started, finished, slept,
                   tick_log, signal, tool_vars, startup, prompt_memory>>

\* Phase 1 raised: `except Exception ... return`.
Phase1Fail ==
    /\ pc = "phase1"
    /\ pc' = "stopped"
    /\ exit' = "return"
    /\ startup' = "failed"
    /\ UNCHANGED <<tick_count, client_state, started, finished, slept,
                   tick_log, signal, tool_vars, prompt_memory>>

\* Phase 2: a2a_client = BabylonA2AClient(...), whose __init__ sets message_id = 1.
Phase2Ok ==
    /\ pc = "phase2"
    /\ client_state' = "open"
    /\ message_id' = 1
    /\ pc' = "phase3"
    /\ UNCHANGED <<exit, tick_count, started, finished, slept, tick_log, signal,
                   action_memory, now, tool, tool_arg, tool_base, inflight,
                   balance, sent, ret, last_call, startup, prompt_memory>>

\* Phase 2 raised before a2a_client was assigned.
Phase2Fail ==
    /\ pc = "phase2"
    /\ pc' = "stopped"
    /\ exit' = "return"
    /\ startup' = "failed"
    /\ UNCHANGED <<tick_count, client_state, started, finished, slept,
                   tick_log, signal, tool_vars, prompt_memory>>

\* Phase 3: BabylonAgent(strategy) constructed.
Phase3Ok ==
    /\ pc = "phase3"
    /\ pc' = "phase4"
    /\ UNCHANGED <<exit, tick_count, client_state, started, finished, slept, tick_log,
                   signal, tool_vars, startup, prompt_memory>>

\* Mutant of Phase3Fail: the handler prints and lacks its `return`, so main()
\* goes on to Phase 4.
Phase3Fail_falls_through ==
    /\ pc = "phase3"
    /\ pc' = "phase4"
    /\ startup' = "failed"
    /\ UNCHANGED <<exit, tick_count, client_state, started, finished, slept,
                   tick_log, signal, tool_vars, prompt_memory>>

\* Phase 3 raised: `except Exception ... return`, the client left as it is.
Phase3Fail ==
    /\ pc = "phase3"
    /\ pc' = "stopped"
    /\ exit' = "return"
    /\ startup' = "failed"
    /\ UNCHANGED <<tick_count, client_state, started, finished, slept,
                   tick_log, signal, tool_vars, prompt_memory>>

\* Phase 4: tick_interval = int(os.getenv('TICK_INTERVAL', '30')); tick_count = 0.
Phase4Ok ==
    /\ pc = "phase4"
    /\ tick_count' = 0
    /\ startup' = "ok"
    /\ pc' = "loop"
    /\ UNCHANGED <<exit, client_state, started, finished, slept, tick_log,
                   signal, tool_vars, prompt_memory>>

\* Phase 4 with a TICK_INTERVAL that is no integer: int() raises ValueError
\* outside every try, and main() ends with it.
Phase4Fail ==
    /\ pc = "phase4"
    /\ startup' = "crashed"
    /\ pc' = "stopped"
    /\ exit' = "ValueError"
    /\ UNCHANGED <<tick_count, client_state, started, finished, slept, tick_log,
                   signal, tool_vars, prompt_memory>>

\* Mutant of TickStart: the decide call is started as a task and not awaited;
\* the loop goes straight to its sleep.
TickStart_no_await ==
    /\ pc = "loop"
    /\ tick_count < MaxTicks
    /\ tick_count' = tick_count + 1
    /\ started' = started + 1
    /\ tick_log' = Append(tick_log, "running")
    /\ prompt_memory' = get_memory_summary(action_memory)
    /\ pc' = "sleep"
    /\ UNCHANGED <<exit, client_state, finished, slept, signal, tool_vars, startup>>

\* Top of `while True`: tick_count += 1, then await babylon_agent.decide(...).
TickStart ==
    /\ pc = "loop"
    /\ tick_count < MaxTicks
    /\ tick_count' = tick_count + 1
    /\ started' = started + 1
    /\ tick_log' = Append(tick_log, "running")
    /\ prompt_memory' = get_memory_summary(action_memory)
    /\ pc' = "decide"
    /\ UNCHANGED <<exit, client_state, finished, slept, signal, tool_vars, startup>>

\* Mutant of DecideReturn: the loop is left (`break`) once a decision was made.
DecideReturn_breaks ==
    /\ pc = "decide"
    /\ tool = "none"
    /\ finished' = finished + 1
    /\ tick_log' = [tick_log EXCEPT ![Len(tick_log)] = "ok"]
    /\ pc' = "stopped"
    /\ exit' = "return"
    /\ UNCHANGED <<tick_count, client_state, started, slept, signal, tool_vars,
                   startup, prompt_memory>>

\* decide returned: the tick's success is printed, then await asyncio.sleep(...).
DecideReturn ==
    /\ pc = "decide"
    /\ tool = "none"
    /\ finished' = finished + 1
    /\ tick_log' = [tick_log EXCEPT ![Len(tick_log)] = "ok"]
    /\ pc' = "sleep"
    /\ UNCHANGED <<exit, tick_count, client_state, started, slept, signal, tool_vars, startup, prompt_memory>>

\* Mutant of DecideRaise: no handler around the decide call, so the exception
\* leaves the loop and main().
DecideRaise_escapes ==
    /\ pc = "decide"
    /\ tool = "none"
    /\ finished' = finished + 1
    /\ tick_log' = [tick_log EXCEPT ![Len(tick_log)] = "error"]
    /\ pc' = "stopped"
    /\ exit' = "Exception"
    /\ UNCHANGED <<tick_count, client_state, started, slept, signal, tool_vars, startup, prompt_memory>>

\* Mutant of DecideRaise: the handler ends with `continue`, skipping the sleep.
DecideRaise_continues ==
    /\ pc = "decide"
    /\ tool = "none"
    /\ finished' = finished + 1
    /\ tick_log' = [tick_log EXCEPT ![Len(tick_log)] = "error"]
    /\ pc' = "loop"
    /\ UNCHANGED <<exit, tick_count, client_state, started, slept, signal, tool_vars, startup, prompt_memory>>

\* decide raised an Exception: the tick's `except Exception` prints it, then
\* await asyncio.sleep(...).
DecideRaise ==
    /\ pc = "decide"
    /\ tool = "none"
    /\ finished' = finished + 1
    /\ tick_log' = [tick_log EXCEPT ![Len(tick_log)] = "error"]
    /\ pc' = "sleep"
    /\ UNCHANGED <<exit, tick_count, client_state, started, slept, signal, tool_vars, startup, prompt_memory>>

\* asyncio.sleep(tick_interval) ran to its end: back to the top of the loop.
SleepDone ==
    /\ pc = "sleep"
    /\ slept' = slept + 1
    /\ pc' = "loop"
    /\ UNCHANGED <<exit, tick_count, client_state, started, finished, tick_log,
                   signal, tool_vars, startup, prompt_memory>>

\* What a SIGINT raises inside main() at its current await.  Under asyncio.run
\* the main task is cancelled (CancelledError at the await; Python >= 3.11 always,
\* earlier versions when the loop is idle, which it is during the sleep); on
\* Python < 3.11 a SIGINT that arrives while the task's own code runs raises
\* KeyboardInterrupt there.
Deliveries(at) ==
    IF at = "decide" THEN {"CancelledError", "KeyboardInterrupt"}
                     ELSE {"CancelledError"}

\* The outer handler of main(): `except KeyboardInterrupt`.
main_catches(e) == e = "KeyboardInterrupt"

\* A SIGINT while the loop runs.  The exception passes the handlers from the
\* innermost out: the running adapter's `except Exception`, the tick's
\* `except Exception` (neither catches the two classes above), then the outer
\* `except KeyboardInterrupt`; what that does not catch ends main(), and
\* asyncio.run raises KeyboardInterrupt to the module level, where nothing
\* catches it.
Sigint ==
    /\ pc \in {"decide", "sleep"}
    /\ ~signal
    /\ signal' = TRUE
    /\ \E e \in Deliveries(pc) :
         IF pc = "decide" /\ tool # "none" /\ is_Exception(e)
           THEN /\ ret' = ErrorPayload(tool, <<e>>)
                /\ UNCHANGED <<pc, exit, tick_log, finished>>
         ELSE IF pc = "decide" /\ is_Exception(e)
           THEN /\ pc' = "sleep"
                /\ tick_log' = [tick_log EXCEPT ![Len(tick_log)] = "error"]
                /\ finished' = finished + 1
                /\ UNCHANGED <<exit, ret>>
         ELSE IF main_catches(e)
           THEN /\ pc' = "shutdown"
                /\ UNCHANGED <<exit, tick_log, finished, ret>>
           ELSE /\ pc' = "stopped"
                /\ exit' = "KeyboardInterrupt"
                /\ UNCHANGED <<tick_log, finished, ret>>
    /\ tool' = "none"
    /\ inflight' = NoRequest
    /\ UNCHANGED <<tick_count, client_state, started, slept, message_id,
                   action_memory, now, tool_arg, tool_base, balance, sent,
                   last_call, startup, prompt_memory>>

\* The outer handler's body: await a2a_client.close(), then main() returns.
Shutdown ==
    /\ pc = "shutdown"
    /\ client_state' = "closed"
    /\ pc' = "stopped"
    /\ exit' = "return"
    /\ UNCHANGED <<tick_count, started, finished, slept, tick_log, signal, tool_vars, startup, prompt_memory>>

\* ---------------------------------------------------------- specifications

Init ==
    /\ pc = "phase1"
    /\ exit = "none"
    /\ tick_count = 0
    /\ client_state = "None"
    /\ message_id = 0
    /\ action_memory = <<>>
    /\ now = 0
    /\ tool = "none"
    /\ tool_arg = ""
    /\ tool_base = 0
    /\ inflight = NoRequest
    /\ balance = NoResult
    /\ sent = <<>>
    /\ ret = NoPayload
    /\ last_call = NoCall
    /\ started = 0
    /\ finished = 0
    /\ slept = 0
    /\ tick_log = <<>>
    /\ signal = FALSE
    /\ startup = "running"
    /\ prompt_memory = NoSummary

Next ==
    \/ Phase1Ok
    \/ Phase1Fail
    \/ Phase2Ok
    \/ Phase2Fail
    \/ Phase3Ok
    \/ Phase3Fail
    \/ Phase4Ok
    \/ Phase4Fail
    \/ TickStart
    \/ InvokeTool(MaxCalls)
    \/ Adapters
    \/ DecideReturn
    \/ DecideRaise
    \/ SleepDone
    \/ Sigint
    \/ Shutdown

\* The whole program, from the start of main().
Spec == Init /\ [][Next]_vars

\* The event loop resumes main() whenever it can run, every response (or
\* failure) of a POST arrives, every decide call returns or raises and every
\* sleep ends.
Fairness ==
    /\ WF_vars(Phase4Ok)
    /\ WF_vars(TickStart)
    /\ WF_vars(Adapters)
    /\ WF_vars(DecideReturn \/ DecideRaise)
    /\ WF_vars(SleepDone)

NextLive ==
    \/ Phase1Ok
    \/ Phase1Fail
    \/ Phase2Ok
    \/ Phase2Fail
    \/ Phase3Ok
    \/ Phase3Fail
    \/ Phase4Ok
    \/ Phase4Fail
    \/ TickStart
    \/ InvokeTool(MaxLiveCalls)
    \/ Adapters
    \/ DecideReturn
    \/ DecideRaise
    \/ SleepDone
    \/ Sigint
    \/ Shutdown

\* The whole program with calls, decide calls and sleeps that all end.
SpecLive == Init /\ [][NextLive]_vars /\ Fairness

\* A log of n CREATE_POST entries: the log after n successful create_post calls.
PostResult == [posts |-> <<"p1">>]
PostBody == [kind |-> "object", has_result |-> TRUE, has_error |-> FALSE,
             result |-> PostResult, message |-> NoMessage]
Posted(n) ==
    [i \in 1..n |-> [action |-> "CREATE_POST", result |-> PostResult, timestamp |-> i]]

\* The first decide call, after the oracle has run create_post n times with
\* success, for n one short of the log's capacity or at it.
InitMem ==
    /\ pc = "decide"
    /\ exit = "none"
    /\ tick_count = 1
    /\ client_state = "open"
    /\ \E n \in {MemoryCap - 1, MemoryCap} :
         /\ message_id = n + 1
         /\ action_memory = Posted(n)
         /\ now = n
         /\ tool_base = n - 1
         /\ sent = [i \in 1..n |-> [id |-> i, method |-> "a2a.createPost"]]
    /\ tool = "none"
    /\ tool_arg = ""
    /\ inflight = NoRequest
    /\ balance = NoResult
    /\ ret = Payload("create_post", PostResult)
    /\ last_call = Called([status |-> 200, body |-> PostBody])
    /\ started = 1
    /\ finished = 0
    /\ slept = 0
    /\ tick_log = <<"running">>
    /\ signal = FALSE
    /\ startup = "ok"
    /\ prompt_memory = get_memory_summary(<<>>)

NextMem ==
    \/ InvokeTool(MemoryCap + MaxMemCalls)
    \/ Adapters

\* The adapters and the log, from a log that is nearly full.
SpecMem == InitMem /\ [][NextMem]_vars

\* The log after the oracle's successful create_post and buy_shares("yes")
\* calls, labels[i] being the label of the i-th of them.
SumLabels == {"CREATE_POST", "BUY_YES"}
SumResult(label) == IF label = "CREATE_POST" THEN PostResult ELSE [balance |-> 100]
SumMethod(label) == IF label = "CREATE_POST" THEN "a2a.createPost" ELSE "a2a.buyShares"
SumTool(label) == IF label = "CREATE_POST" THEN "create_post" ELSE "buy_shares"
SumBody(label) ==
    [kind |-> "object", has_result |-> TRUE, has_error |-> FALSE,
     result |-> SumResult(label), message |-> NoMessage]
Logged(labels) ==
    [i \in 1..Len(labels) |->
        [action |-> labels[i], result |-> SumResult(labels[i]), timestamp |-> i]]

\* The first decide call, after the oracle has run n adapters that log, all
\* with success, for every n up to MaxSumLog and every mix of the two labels.
InitSum ==
    /\ pc = "decide"
    /\ exit = "none"
    /\ tick_count = 1
    /\ client_state = "open"
    /\ \E n \in 0..MaxSumLog : \E labels \in [1..n -> SumLabels] :
         /\ message_id = n + 1
         /\ action_memory = Logged(labels)
         /\ now = n
         /\ sent = [i \in 1..n |-> [id |-> i, method |-> SumMethod(labels[i])]]
         /\ IF n = 0
              THEN /\ tool_base = 0
                   /\ tool_arg = ""
                   /\ ret = NoPayload
                   /\ last_call = NoCall
              ELSE /\ tool_base = n - 1
                   /\ tool_arg = IF labels[n] = "BUY_YES" THEN "yes" ELSE ""
                   /\ ret = Payload(SumTool(labels[n]), SumResult(labels[n]))
                   /\ last_call = Called([status |-> 200, body |-> SumBody(labels[n])])
    /\ tool = "none"
    /\ inflight = NoRequest
    /\ balance = NoResult
    /\ started = 1
    /\ finished = 0
    /\ slept = 0
    /\ tick_log = <<"running">>
    /\ signal = FALSE
    /\ startup = "ok"
    /\ prompt_memory = get_memory_summary(<<>>)

NextSum ==
    \/ DecideReturn
    \/ DecideRaise
    \/ SleepDone
    \/ TickStart

\* The ticks that follow a first tick which filled the log: each builds its
\* prompt from the log's summary.
SpecSum == InitSum /\ [][NextSum]_vars

\* ----------------------------------------------------------------- claims

\* C1: the requests of one client carry the ids 1, 2, 3, ... in the order they
\* are sent, whatever the outcome of each call: the first has id 1, each later
\* one the previous id plus 1, and no id is carried by two requests.
C1_RequestIdsCountUp ==
    /\ \A i \in 1..Len(sent) : sent[i].id = i
    /\ \A i, j \in 1..Len(sent) : i # j => sent[i].id # sent[j].id

\* C1 witness: a call failed, and it was not the first call of the client.
C1_Witness ==
    /\ Len(sent) >= 3
    /\ tool = "none"
    /\ ret.error
    /\ sent[Len(sent)].id = 3

\* C2: a tick whose decide call raised is contained: the exception did not end
\* main(), tick_count had been incremented for that tick, the tick's sleep is
\* running or has run, and a later tick started only after that sleep, with the
\* counter one higher.  (A SIGINT may still end the sleep.)
C2_FailedTickIsContained ==
    \A n \in 1..Len(tick_log) :
       tick_log[n] = "error" =>
          /\ tick_count = Len(tick_log)
          /\ tick_count >= n
          /\ exit = "none" \/ signal
          /\ pc \in {"sleep", "loop", "decide"} \/ signal
          /\ n = tick_count => \/ pc = "sleep" /\ slept = n - 1
                               \/ pc = "loop" /\ slept = n
                               \/ signal
          /\ n < tick_count => slept >= n

\* C2 witness: tick 1 failed and tick 2 is running.
C2_Witness ==
    /\ Len(tick_log) = 2
    /\ tick_log[1] = "error"
    /\ tick_count = 2
    /\ pc = "decide"
    /\ slept = 1

\* C3: the action log never holds more than 20 entries, and every
\* add_to_memory (a step that reads the clock) leaves, below 20 entries, the old
\* log plus the new entry and, at 20 entries, the old log without its first
\* (oldest) entry, in the same order, plus the new entry; no other step changes
\* the log.
C3_LogIsBoundedFifo ==
    /\ [](Len(action_memory) <= MemoryCap)
    /\ [][IF now' # now
            THEN LET new == action_memory'[Len(action_memory')]
                 IN  /\ new.timestamp = now'
                     /\ action_memory' =
                          IF Len(action_memory) = MemoryCap
                            THEN Append(Tail(action_memory), new)
                            ELSE Append(action_memory, new)
            ELSE action_memory' = action_memory]_vars

\* C3 witness: entries were appended to a full log: 20 entries are held, the
\* oldest two are gone and the newest entry is last.
C3_Witness ==
    /\ Len(action_memory) = MemoryCap
    /\ now >= MemoryCap + 2
    /\ action_memory[1].timestamp = now - MemoryCap + 1
    /\ action_memory[MemoryCap].timestamp = now

\* C4: once a SIGINT has ended the loop and main() has terminated, close() has
\* been called on the client and the program ended without an uncaught error.
C4_SignalShutsDownCleanly ==
    (signal /\ pc = "stopped") => (client_state = "closed" /\ exit = "return")

\* C5: whenever main() has terminated after the client was constructed,
\* close() has been called on it.
C5_ClientClosedOnEveryExit ==
    (pc = "stopped" /\ client_state # "None") => client_state = "closed"

\* C6: when the response call() got was a 2xx whose JSON object holds neither
\* `result` nor `error`, call() raised and returned no value, and the adapter
\* that made the call returned the {error: str(e)} payload of that exception.
C6_MalformedBodyRaises ==
    ( /\ last_call.done
      /\ is_success(last_call.response.status)
      /\ last_call.response.body.kind = "object"
      /\ ~last_call.response.body.has_result
      /\ ~last_call.response.body.has_error )
    => /\ last_call.outcome.raised
       /\ last_call.outcome.value = NoResult
       /\ tool = "none"
       /\ ret.error
       /\ ret.value = NoResult
       /\ ret.text = last_call.outcome.text

\* C6 witness: buy_shares got a 200 whose object has neither field and returned
\* an error payload.
C6_Witness ==
    /\ last_call.done
    /\ last_call.response.status = 200
    /\ last_call.response.body.kind = "object"
    /\ ~last_call.response.body.has_result
    /\ ~last_call.response.body.has_error
    /\ ret = ErrorPayload("buy_shares", <<"'result'">>)

\* C7: whenever a call() made by an adapter failed (no response, non-2xx status,
\* undecodable or malformed body, remote error object), that adapter has returned
\* the payload {error: str(e)} to the oracle, and for a remote error object the
\* payload's text holds the remote message.
C7_AdapterTurnsFailureIntoPayload ==
    (last_call.done /\ last_call.outcome.raised)
    => /\ tool = "none"
       /\ ret.tool \in ToolNames
       /\ ret = ErrorPayload(ret.tool, last_call.outcome.text)
       /\ ( /\ is_success(last_call.response.status)
            /\ last_call.response.body.kind = "object"
            /\ last_call.response.body.has_error )
          => \E i \in DOMAIN ret.text : ret.text[i] = last_call.response.body.message

\* C7 witness: get_markets got an error object for a2a.getMarketData and
\* returned its message in an error payload.
C7_Witness ==
    /\ last_call.done
    /\ last_call.response.status = 200
    /\ last_call.response.body.has_error
    /\ last_call.response.body.message = "market closed"
    /\ sent[Len(sent)].method = "a2a.getMarketData"
    /\ ret = ErrorPayload("get_markets", <<"A2A Error: ", "market closed">>)

\* C8: the client has POSTed exactly once per call() made (message_id - 1 of
\* them), and the running or last invocation of buy_shares / create_post has
\* sent exactly one request, its own a2a.buyShares / a2a.createPost.
C8_OnePostPerCall ==
    /\ client_state # "None" => Len(sent) = message_id - 1
    /\ LET name == IF tool # "none" THEN tool ELSE ret.tool
       IN  name \in {"buy_shares", "create_post"} =>
             /\ Len(sent) = tool_base + 1
             /\ sent[Len(sent)].method = first_method(name)

\* C8 witness: buy_shares failed after its one request, the second of the client.
C8_Witness ==
    /\ tool = "none"
    /\ ret.tool = "buy_shares"
    /\ ret.error
    /\ tool_base = 1
    /\ Len(sent) = 2

\* C9: a decide call is running only while every earlier one has returned or
\* raised and every earlier tick's sleep has finished: at most one is in flight.
C9_OneDecisionCycleInFlight ==
    /\ started <= finished + 1
    /\ started <= slept + 1
    /\ pc = "decide" => (started = finished + 1 /\ started = slept + 1)

\* C9 witness: the second decide call is running after the first tick finished.
C9_Witness ==
    /\ pc = "decide"
    /\ started = 2
    /\ finished = 1
    /\ slept = 1

\* C10 as claimed: whenever an adapter completes, the log has gained an entry.
C10_EveryCompletedToolCallIsLogged ==
    [][(tool # "none" /\ tool' = "none" /\ ret'.tool = tool) =>
          /\ now' = now + 1
          /\ Len(action_memory') >= 1
          /\ action_memory'[Len(action_memory')].timestamp = now']_vars

\* C10 as amended: whenever buy_shares or create_post completes with the result
\* of its call, the log has gained an entry holding that result.
C10_SuccessfulBuyOrPostIsLogged ==
    [][( /\ tool \in {"buy_shares", "create_post"}
         /\ tool' = "none"
         /\ ret'.tool = tool
         /\ ~ret'.error ) =>
          /\ now' = now + 1
          /\ Len(action_memory') >= 1
          /\ action_memory'[Len(action_memory')].timestamp = now'
          /\ action_memory'[Len(action_memory')].result = ret'.value]_vars

\* C10 witness: create_post has returned a result and the log's last entry is
\* the one recorded for it.
C10_Witness ==
    /\ tool = "none"
    /\ ret.tool = "create_post"
    /\ ~ret.error
    /\ Len(action_memory) >= 1
    /\ action_memory[Len(action_memory)].timestamp = now
    /\ action_memory[Len(action_memory)].action = "CREATE_POST"
    /\ action_memory[Len(action_memory)].result = ret.value

\* C11: once a start-up phase (identity, client construction, agent
\* initialisation) has failed, main() has returned and the loop was never
\* entered: tick_count is 0, no decide call was started, no tick was printed and
\* no request was sent.
C11_StartupFailureNeverEntersLoop ==
    startup = "failed" =>
       /\ pc = "stopped"
       /\ exit = "return"
       /\ tick_count = 0
       /\ started = 0
       /\ tick_log = <<>>
       /\ sent = <<>>
       /\ prompt_memory = NoSummary

\* C11 witness: agent initialisation failed after the client was constructed.
C11_Witness ==
    /\ startup = "failed"
    /\ client_state = "open"
    /\ message_id = 1
    /\ pc = "stopped"

\* C12: a step takes main() out of the running loop (loop top, decide, sleep)
\* only if it is the delivery of a SIGINT: no return or failure of a decide
\* call, no adapter outcome and no end of a sleep does.
C12_OnlySignalEndsLoop ==
    [][(pc \in {"loop", "decide", "sleep"} /\ pc' \notin {"loop", "decide", "sleep"})
          => (~signal /\ signal')]_vars

\* C12 witness: the loop ran through a failed tick into a second tick, and
\* then a SIGINT ended it.
C12_Witness ==
    /\ signal
    /\ pc = "stopped"
    /\ tick_count = 2
    /\ tick_log[1] = "error"

\* C13: in a run where no SIGINT ever arrives (and, by SpecLive, every decide
\* call and every sleep ends), once the loop has been entered every tick the
\* bound allows eventually starts, whatever the earlier ticks did.
C13_EveryTickEventuallyStarts ==
    ([]~signal) => \A n \in 1..MaxTicks : (startup = "ok") ~> (started >= n)

\* C13 witness: the last tick the bound allows has started after every earlier
\* tick failed, with no SIGINT.
C13_Witness ==
    /\ ~signal
    /\ started = MaxTicks
    /\ pc = "decide"
    /\ \A n \in 1..(MaxTicks - 1) : tick_log[n] = "error"


\* C14: the prompt of a decide call carries the sentinel "No recent actions."
\* when the log is empty; otherwise it carries one line for each of the
\* min(5, size) most recently appended entries, oldest of them first and the
\* most recent last, each line with its entry's action and timestamp, so a log
\* of one entry gives exactly one line.
C14_SummaryIsLastFiveInOrder ==
    tick_count >= 2 =>
        LET size == Len(action_memory)
            lines == prompt_memory.lines
        IN  IF size = 0
              THEN prompt_memory.text = "No recent actions." /\ lines = <<>>
              ELSE /\ prompt_memory.text # "No recent actions."
                   /\ Len(lines) = (IF size < 5 THEN size ELSE 5)
                   /\ \A k \in 1..Len(lines) :
                         LET entry == action_memory[size - Len(lines) + k]
                         IN  /\ lines[k].action = entry.action
                             /\ lines[k].timestamp = entry.timestamp
                   /\ lines[Len(lines)].timestamp = now

C14_Witness ==
    /\ tick_count = 2
    /\ pc = "decide"
    /\ Len(action_memory) = 6
    /\ Len(prompt_memory.lines) = 5
    /\ prompt_memory.lines[1].timestamp = 2
    /\ prompt_memory.lines[1].action = "BUY_YES"
    /\ prompt_memory.lines[5].action = "CREATE_POST"


\* C15: a buy_shares or create_post call that ends with the result of its
\* underlying call appends exactly one entry, labelled BUY_YES or BUY_NO (the
\* outcome in upper case) or CREATE_POST, holding that result; one that ends
\* with a failure leaves the log as it was, and so does every other step,
\* among them all of get_markets, get_portfolio and get_feed.
C15_OnlySuccessfulBuyOrPostAppends ==
    [][IF tool \in {"buy_shares", "create_post"} /\ ret'.tool = tool /\ ~ret'.error
         THEN /\ ~last_call'.outcome.raised
              /\ Len(action_memory) < MemoryCap
              /\ action_memory' =
                    Append(action_memory,
                           [action |-> CASE tool = "create_post" -> "CREATE_POST"
                                         [] tool_arg = "yes" -> "BUY_YES"
                                         [] tool_arg = "No" -> "BUY_NO",
                            result |-> last_call'.outcome.value,
                            timestamp |-> now'])
         ELSE action_memory' = action_memory]_vars

C15_Witness ==
    /\ Len(sent) = 2
    /\ sent[1].method = "a2a.getFeed"
    /\ ret.tool = "buy_shares"
    /\ ~ret.error
    /\ tool_arg = "No"
    /\ Len(action_memory) = 1
    /\ action_memory[1].action = "BUY_NO"


\* C16: every step of a get_portfolio call keeps to the order a2a.getBalance,
\* then a2a.getPositions with the next request id: the call's first request is
\* a2a.getBalance; a second request is sent only on the step that received a
\* result for a2a.getBalance, and is a2a.getPositions with the id that follows;
\* a failed a2a.getBalance ends the call with an error payload and no further
\* request; and a payload without error is the merged {balance, positions}
\* of a call that sent both requests and got a result for the second.
C16_BalanceThenPositions ==
    [][/\ tool = "get_portfolio" /\ Len(sent') > Len(sent) =>
            /\ inflight.method = "a2a.getBalance"
            /\ ~last_call'.outcome.raised
            /\ sent' = Append(sent, [id |-> sent[Len(sent)].id + 1,
                                      method |-> "a2a.getPositions"])
       /\ tool' = "get_portfolio" =>
            /\ sent'[tool_base' + 1].method = "a2a.getBalance"
            /\ Len(sent') - tool_base' \in {1, 2}
       /\ tool = "get_portfolio" /\ inflight.method = "a2a.getBalance"
             /\ last_call'.done /\ last_call'.outcome.raised =>
            /\ sent' = sent
            /\ ret'.tool = "get_portfolio"
            /\ ret'.error
            /\ tool' = "none"
       /\ ret'.tool = "get_portfolio" /\ ~ret'.error =>
            /\ Len(sent') - tool_base' = 2
            /\ sent'[Len(sent')].method = "a2a.getPositions"
            /\ ~last_call'.outcome.raised
            /\ DOMAIN ret'.value = {"balance", "positions"}
            /\ ret'.value.positions = last_call'.outcome.value
      ]_vars

C16_Witness ==
    /\ Len(sent) = 3
    /\ sent[1] = [id |-> 1, method |-> "a2a.getBalance"]
    /\ sent[2] = [id |-> 2, method |-> "a2a.getBalance"]
    /\ sent[3] = [id |-> 3, method |-> "a2a.getPositions"]
    /\ ret.tool = "get_portfolio"
    /\ ~ret.error
    /\ ret.value.balance = 100


C18_CancellationIsNotAbsorbed ==
    [][/\ ~signal /\ signal' =>
            /\ pc' \in {"shutdown", "stopped"}
            /\ finished' = finished
            /\ tick_log' = tick_log
            /\ ret' = ret
       /\ signal \/ signal' =>
            /\ started' = started
            /\ tick_count' = tick_count
            /\ sent' = sent
            /\ message_id' = message_id
      ]_vars

C18_Witness ==
    /\ signal
    /\ pc = "stopped"
    /\ started = 1
    /\ tick_log = <<"running">>
    /\ Len(sent) = 1
    /\ sent[1].method = "a2a.getMarketData"
    /\ ~last_call.done
    /\ ret = NoPayload


\* C19: the tick counter equals the number of decide calls started, and decide
\* calls and sleeps alternate, a decide call first: while decide call n runs,
\* n - 1 decide calls have ended and n - 1 sleeps are over; during the sleep
\* that follows, n decide calls have ended, by return or by exception, and
\* n - 1 sleeps are over; back at the top of the loop n sleeps are over.
C19_DecideAndSleepAlternate ==
    /\ tick_count = started
    /\ Len(tick_log) = started
    /\ started - slept \in {0, 1}
    /\ pc = "decide" => finished = started - 1 /\ slept = started - 1
    /\ pc = "sleep" => finished = started /\ slept = started - 1
    /\ pc = "loop" => finished = started /\ slept = started
    /\ \A n \in 1..finished : tick_log[n] \in {"ok", "error"}

C19_Witness ==
    /\ pc = "sleep"
    /\ started = 2
    /\ finished = 2
    /\ slept = 1
    /\ tick_log = <<"error", "ok">>

====
